---- MODULE Spec2Model ----
(***************************************************************************)
(* Model of scraper.py: the sheet loader (module level), the slug helper   *)
(* create_endole_slug, the fetch helper scrape_company_data and the row    *)
(* loop of main().                                                         *)
(*                                                                         *)
(* A Python str is modelled as a sequence of one-character strings, so     *)
(* that strip / lower / replace are computed character by character.       *)
(***************************************************************************)
EXTENDS Integers, Sequences, FiniteSets, TLC

VARIABLES
  sheet,          \* the worksheet "Parent": a sequence of rows, row 1 is the header
  headers,        \* all_values[0]
  rows,           \* all_values[1:]
  reg_num_idx,    \* 0-based offset of the identifier column, -1 before it is resolved
  reg_name_idx,   \* 0-based offset of the name column
  turnover_idx,   \* 0-based offset of the target column
  turnover_cache, \* dict[(reg_number, slug)] -> turnover
  idx,            \* enumerate(rows) index of the row being processed
  turnover,       \* local of the loop body: the value about to be written
  pc,             \* position of the program
  run,            \* number of the current execution of the program
  prevWritten,    \* in-memory indexes whose cell the previous execution wrote
  log,            \* the collaborator calls and prints issued so far in this execution
  company_name,   \* argument of a stand-alone create_endole_slug call
  slug1,          \* create_endole_slug(company_name)
  slug2           \* create_endole_slug(slug1)

vars == <<sheet, headers, rows, reg_num_idx, reg_name_idx, turnover_idx,
          turnover_cache, idx, turnover, pc, run, prevWritten, log,
          company_name, slug1, slug2>>

rowVars == <<sheet, headers, rows, reg_num_idx, reg_name_idx, turnover_idx,
             turnover_cache, idx, turnover, run, prevWritten, log>>

slugVars == <<company_name, slug1, slug2>>

-----------------------------------------------------------------------------
(* Bounds *)

MaxRows == 2        \* data rows in the sheet
MaxNameLen == 3     \* length of the display names enumerated for the slug helper
MaxRuns == 2        \* executions of the program on the same sheet

-----------------------------------------------------------------------------
(* Characters and Python str methods *)

TAB == "\t"
RSQUO == "U+2019"   \* the right single quotation mark of line 58

Whitespace == {" ", TAB}

UpperCase == <<"A", "B", "C", "L", "N", "O", "S">>
LowerCase == <<"a", "b", "c", "l", "n", "o", "s">>

LowerChar(c) ==
  IF \E i \in 1..Len(UpperCase) : UpperCase[i] = c
  THEN LowerCase[CHOOSE i \in 1..Len(UpperCase) : UpperCase[i] = c]
  ELSE c

\* str.lower(), character by character
LowerChars(s) == [i \in 1..Len(s) |-> LowerChar(s[i])]

\* str.lower(); the receiver is evaluated once
Lower(s) == CHOOSE r \in { LowerChars(x) : x \in {s} } : TRUE

RECURSIVE LStrip(_)
LStrip(s) ==
  IF s # << >> /\ Head(s) \in Whitespace THEN LStrip(Tail(s)) ELSE s

RECURSIVE RStrip(_)
RStrip(s) ==
  IF s # << >> /\ s[Len(s)] \in Whitespace
  THEN RStrip(SubSeq(s, 1, Len(s) - 1))
  ELSE s

\* str.strip(); the receiver is evaluated once
Strip(s) == CHOOSE r \in { RStrip(y) : y \in { LStrip(x) : x \in {s} } } : TRUE

\* str.replace(old, new) for a one-character old, from the left
RECURSIVE ReplaceFrom(_, _, _)
ReplaceFrom(s, old, new) ==
  IF s = << >> THEN << >>
  ELSE (IF Head(s) = old THEN new ELSE <<Head(s)>>) \o ReplaceFrom(Tail(s), old, new)

\* str.replace(old, new); the receiver is evaluated once, as in a method chain
Replace(s, old, new) == CHOOSE r \in { ReplaceFrom(x, old, new) : x \in {s} } : TRUE

\* line 54 dropping the ampersand instead of spelling it out
create_endole_slug_no_and(name) ==
  Replace(Replace(Replace(Replace(Replace(Replace(
    Lower(Strip(name)),
    "&", << >>),
    ",", << >>),
    ".", << >>),
    "'", << >>),
    RSQUO, << >>),
    " ", <<"-">>)

\* lines 50-60
create_endole_slug(name) ==
  Replace(Replace(Replace(Replace(Replace(Replace(
    Lower(Strip(name)),
    "&", <<"a", "n", "d">>),
    ",", << >>),
    ".", << >>),
    "'", << >>),
    RSQUO, << >>),
    " ", <<"-">>)


-----------------------------------------------------------------------------
(* Column names and cell values of the worksheet *)

RegCol == "Companies House Regestration Number"
NameCol == "Company"
TurnoverCol == "Individual Turnover"

NanToken == <<"n", "a", "n">>
NotAvailable == <<"N", "/", "A">>

Reg == <<"1", "2", "3", "4", "5", "6", "7", "8">>
RegPadded == <<" ">> \o Reg \o <<" ">>
RegNaN == <<"N", "a", "N">>
NameAcme == <<"A", "c", "m", "e", " ", "&", " ", "C", "o">>
NameAcmeAnd == <<"a", "c", "m", "e", " ", "a", "n", "d", " ", "c", "o">>
NameBolt == <<"B", "o", "l", "t">>
SlugAcme == <<"a", "c", "m", "e", "-", "a", "n", "d", "-", "c", "o">>
Blank == <<" ">>
Filled == <<"9", "m">>

\* The rows a sheet is built from: valid and unfilled, blank target, filled,
\* and each kind of invalid row.
RowPool ==
  { [name |-> NameAcme,    reg |-> Reg,       target |-> << >>],
    [name |-> NameAcmeAnd, reg |-> RegPadded, target |-> << >>],
    [name |-> NameBolt,    reg |-> Reg,       target |-> << >>],
    [name |-> NameAcme,    reg |-> Reg,       target |-> Blank],
    [name |-> NameAcme,    reg |-> Reg,       target |-> Filled],
    [name |-> NameAcme,    reg |-> << >>,     target |-> << >>],
    [name |-> << >>,       reg |-> Reg,       target |-> << >>],
    [name |-> NameAcme,    reg |-> RegNaN,    target |-> << >>],
    [name |-> NameAcme,    reg |-> RegNaN,    target |-> Filled] }

HeaderPool ==
  { <<NameCol, RegCol>>,
    <<NameCol, TurnoverCol, RegCol>>,
    <<NameCol, TurnoverCol>>,
    <<RegCol, TurnoverCol>> }

RowFor(h, r) ==
  [i \in 1..Len(h) |->
     IF h[i] = NameCol THEN r.name
     ELSE IF h[i] = RegCol THEN r.reg
     ELSE r.target]

\* The worksheets of at most n data rows
SheetsOf(h, k) == { <<h>> \o [i \in 1..k |-> RowFor(h, p[i])] : p \in [1..k -> RowPool] }

Sheets(n) == UNION { SheetsOf(h, k) : h \in HeaderPool, k \in 0..n }

-----------------------------------------------------------------------------
(* Helpers of the loader and of the row loop *)

Contains(s, x) == \E i \in 1..Len(s) : s[i] = x

\* list.index(x), 0-based
Index(s, x) == (CHOOSE i \in 1..Len(s) : s[i] = x /\ \A j \in 1..(i - 1) : s[j] # x) - 1

\* lines 34-35 without the append
EnsureHeaderAsRead(h) == h

\* lines 34-37: the header with the target column ensured
EnsureHeader(h) == IF Contains(h, TurnoverCol) THEN h ELSE Append(h, TurnoverCol)

\* lines 34-37: the rows with an empty target cell appended when it was absent
EnsureRows(h, rs) ==
  IF Contains(h, TurnoverCol) THEN rs ELSE [i \in 1..Len(rs) |-> Append(rs[i], << >>)]

\* line 108: row[turnover_idx].strip() if row[turnover_idx] else ""
TurnoverVal(cell) == IF cell # << >> THEN Strip(cell) ELSE << >>

\* line 111 without .lower()
IsInvalidRowCaseSensitive(reg_number, reg_name) ==
  reg_number = << >> \/ reg_name = << >> \/ reg_number = NanToken

\* line 111
IsInvalidRow(reg_number, reg_name) ==
  reg_number = << >> \/ reg_name = << >> \/ Lower(reg_number) = NanToken

\* line 114 never skipping
AlreadyFilledNever(turnover_val) == FALSE

\* line 114
AlreadyFilled(turnover_val) == turnover_val # << >>

\* line 119
CacheKey(reg_number, slug) == <<reg_number, slug>>

\* line 126 storing the sentinel instead of the fetched value
CachePutSentinel(cache, key, value) ==
  [k \in DOMAIN cache \cup {key} |-> IF k = key THEN NotAvailable ELSE cache[k]]

\* line 126 rebinding the cache to a dict of the one new entry
CachePutAlone(cache, key, value) == [k \in {key} |-> value]

\* line 126 moved after the write of line 128: nothing stored at this point
CachePutDeferred(cache, key, value) == cache

\* line 126: turnover_cache[cache_key] = turnover
CachePut(cache, key, value) ==
  [k \in DOMAIN cache \cup {key} |-> IF k = key THEN value ELSE cache[k]]

\* line 128 with idx + 1: the header row not counted
CellRowOffByOne(i) == i + 1

\* line 128: the coordinates of the cell written for the row at index i
CellRow(i) == i + 2
CellCol(t) == t + 1

\* the row's exception leaving the loop instead of being caught
AfterRowErrorAbort(i) == [pc |-> "aborted", idx |-> i]

\* the handler going round the same row again
AfterRowErrorRetry(i) == [pc |-> "loop", idx |-> i]

\* lines 142-143: where the loop goes after a row raised
AfterRowError(i) == [pc |-> "loop", idx |-> i + 1]

\* What the page does during one visit: page.goto raises, wait_for_load_state
\* raises, no financials frame, no Turnover element, an exception while
\* extracting, text_content() returning None, or returning a text.
PageTexts == { <<" ", "9", "m", " ">> }

PageBehaviours ==
  { [kind |-> "goto_error"], [kind |-> "load_timeout"], [kind |-> "no_frame"],
    [kind |-> "extract_error"], [kind |-> "text_none"] }
  \cup { [kind |-> "text", text |-> t] : t \in PageTexts }

\* lines 62-80 with wait_for_load_state moved inside the try of line 70
scrape_company_data_timeout_caught(b) ==
  IF b.kind = "goto_error"
  THEN [raised |-> TRUE, value |-> << >>]
  ELSE IF b.kind \in {"load_timeout", "no_frame", "no_element", "extract_error"}
  THEN [raised |-> FALSE, value |-> NotAvailable]
  ELSE IF b.kind = "text_none"
  THEN [raised |-> FALSE, value |-> Strip(<< >>)]
  ELSE [raised |-> FALSE, value |-> Strip(b.text)]

\* lines 62-80: the outcome of one fetch
scrape_company_data(b) ==
  IF b.kind \in {"goto_error", "load_timeout"}
  THEN [raised |-> TRUE, value |-> << >>]
  ELSE IF b.kind \in {"no_frame", "no_element", "extract_error"}
  THEN [raised |-> FALSE, value |-> NotAvailable]
  ELSE IF b.kind = "text_none"
  THEN [raised |-> FALSE, value |-> Strip(<< >>)]
  ELSE [raised |-> FALSE, value |-> Strip(b.text)]

\* The locals of the loop body for the row at index idx (lines 106-108, 118-119)
CurRow == rows[idx + 1]
CurRegNumber == Strip(CurRow[reg_num_idx + 1])
CurRegName == Strip(CurRow[reg_name_idx + 1])
CurTurnoverVal == TurnoverVal(CurRow[turnover_idx + 1])
CurSlug == create_endole_slug(CurRegName)
CurKeyUntrimmed == CacheKey(CurRow[reg_num_idx + 1], CurSlug)
CurKey == CacheKey(CurRegNumber, CurSlug)

InLoop == pc = "loop" /\ idx < Len(rows)
CurInvalid == IsInvalidRow(CurRegNumber, CurRegName)
CurFilled == AlreadyFilled(CurTurnoverVal)


-----------------------------------------------------------------------------
(* The program: one execution of scraper.py *)

Idle ==
  /\ headers = << >>
  /\ rows = << >>
  /\ reg_num_idx = -1
  /\ reg_name_idx = -1
  /\ turnover_idx = -1
  /\ turnover_cache = << >>
  /\ idx = 0
  /\ turnover = << >>
  /\ log = << >>

NoSlugCall ==
  /\ company_name = << >>
  /\ slug1 = << >>
  /\ slug2 = << >>

Init ==
  /\ sheet \in Sheets(MaxRows)
  /\ Idle
  /\ pc = "load"
  /\ run = 1
  /\ prevWritten = {}
  /\ NoSlugCall

\* lines 29-38: read the sheet, ensure the target column, push the header row back
LoadSheet ==
  /\ pc = "load"
  /\ headers' = EnsureHeader(sheet[1])
  /\ rows' = EnsureRows(sheet[1], Tail(sheet))
  /\ sheet' = <<headers'>> \o rows'
  /\ log' = log \o << [ev |-> "get_all_values", values |-> sheet],
                      [ev |-> "update_header", header |-> headers', ok |-> TRUE] >>
  /\ pc' = "resolve"
  /\ UNCHANGED <<reg_num_idx, reg_name_idx, turnover_idx, turnover_cache, idx,
                 turnover, run, prevWritten, slugVars>>

\* line 38 raises: the program ends with the exception
LoadSheetFails ==
  /\ pc = "load"
  /\ headers' = EnsureHeader(sheet[1])
  /\ rows' = EnsureRows(sheet[1], Tail(sheet))
  /\ log' = log \o << [ev |-> "get_all_values", values |-> sheet],
                      [ev |-> "update_header", header |-> headers', ok |-> FALSE],
                      [ev |-> "fatal", at |-> "update_header"] >>
  /\ pc' = "aborted"
  /\ UNCHANGED <<sheet, reg_num_idx, reg_name_idx, turnover_idx, turnover_cache, idx,
                 turnover, run, prevWritten, slugVars>>

\* lines 43-45: the three headers.index calls succeed
ResolveColumns ==
  /\ pc = "resolve"
  /\ Contains(headers, RegCol)
  /\ Contains(headers, NameCol)
  /\ reg_num_idx' = Index(headers, RegCol)
  /\ reg_name_idx' = Index(headers, NameCol)
  /\ turnover_idx' = Index(headers, TurnoverCol)
  /\ pc' = "login"
  /\ UNCHANGED <<sheet, headers, rows, turnover_cache, idx, turnover, run,
                 prevWritten, log, slugVars>>

\* lines 43-44: headers.index raises ValueError, nothing catches it
SchemaAbort ==
  /\ pc = "resolve"
  /\ ~(Contains(headers, RegCol) /\ Contains(headers, NameCol))
  /\ log' = Append(log, [ev |-> "fatal", at |-> "index"])
  /\ pc' = "aborted"
  /\ UNCHANGED <<sheet, headers, rows, reg_num_idx, reg_name_idx, turnover_idx,
                 turnover_cache, idx, turnover, run, prevWritten, slugVars>>

\* lines 86-101: browser start and login succeed, the cache is created
Login ==
  /\ pc = "login"
  /\ turnover_cache' = << >>
  /\ idx' = 0
  /\ pc' = "loop"
  /\ UNCHANGED <<sheet, headers, rows, reg_num_idx, reg_name_idx, turnover_idx,
                 turnover, run, prevWritten, log, slugVars>>

\* lines 86-97: browser start or login raises, outside the row loop
LoginFails ==
  /\ pc = "login"
  /\ log' = Append(log, [ev |-> "fatal", at |-> "login"])
  /\ pc' = "aborted"
  /\ UNCHANGED <<sheet, headers, rows, reg_num_idx, reg_name_idx, turnover_idx,
                 turnover_cache, idx, turnover, run, prevWritten, slugVars>>

\* lines 106-113
SkipInvalid ==
  /\ InLoop
  /\ CurInvalid
  /\ log' = Append(log, [ev |-> "skip_invalid", idx |-> idx])
  /\ idx' = idx + 1
  /\ UNCHANGED <<sheet, headers, rows, reg_num_idx, reg_name_idx, turnover_idx,
                 turnover_cache, turnover, pc, run, prevWritten, slugVars>>

\* lines 114-116
SkipFilled ==
  /\ InLoop
  /\ ~CurInvalid
  /\ CurFilled
  /\ log' = Append(log, [ev |-> "skip_filled", idx |-> idx])
  /\ idx' = idx + 1
  /\ UNCHANGED <<sheet, headers, rows, reg_num_idx, reg_name_idx, turnover_idx,
                 turnover_cache, turnover, pc, run, prevWritten, slugVars>>

\* lines 118-123
CacheHit ==
  /\ InLoop
  /\ ~CurInvalid
  /\ ~CurFilled
  /\ CurKey \in DOMAIN turnover_cache
  /\ turnover' = turnover_cache[CurKey]
  /\ log' = log \o << [ev |-> "cache_lookup", idx |-> idx, key |-> CurKey, hit |-> TRUE],
                      [ev |-> "cache_get", idx |-> idx, key |-> CurKey,
                       value |-> turnover_cache[CurKey]] >>
  /\ pc' = "write"
  /\ UNCHANGED <<sheet, headers, rows, reg_num_idx, reg_name_idx, turnover_idx,
                 turnover_cache, idx, run, prevWritten, slugVars>>

FetchEvent(b, r) ==
  [ev |-> "fetch", idx |-> idx, reg_number |-> CurRegNumber, company_slug |-> CurSlug,
   kind |-> b.kind, ok |-> ~r.raised, value |-> r.value]

\* lines 118-126: cache miss, the fetch returns a value
Fetch ==
  /\ InLoop
  /\ ~CurInvalid
  /\ ~CurFilled
  /\ CurKey \notin DOMAIN turnover_cache
  /\ \E b \in PageBehaviours :
       LET r == scrape_company_data(b) IN
       /\ ~r.raised
       /\ turnover' = r.value
       /\ turnover_cache' = CachePut(turnover_cache, CurKey, r.value)
       /\ log' = log \o << [ev |-> "cache_lookup", idx |-> idx, key |-> CurKey, hit |-> FALSE],
                           FetchEvent(b, r),
                           [ev |-> "cache_put", idx |-> idx, key |-> CurKey,
                            value |-> r.value] >>
  /\ pc' = "write"
  /\ UNCHANGED <<sheet, headers, rows, reg_num_idx, reg_name_idx, turnover_idx,
                 idx, run, prevWritten, slugVars>>

\* lines 118-125 and 142-143: cache miss, the fetch raises
FetchFails ==
  /\ InLoop
  /\ ~CurInvalid
  /\ ~CurFilled
  /\ CurKey \notin DOMAIN turnover_cache
  /\ \E b \in PageBehaviours :
       LET r == scrape_company_data(b) IN
       /\ r.raised
       /\ log' = log \o << [ev |-> "cache_lookup", idx |-> idx, key |-> CurKey, hit |-> FALSE],
                           FetchEvent(b, r),
                           [ev |-> "error", idx |-> idx] >>
  /\ pc' = AfterRowError(idx).pc
  /\ idx' = AfterRowError(idx).idx
  /\ UNCHANGED <<sheet, headers, rows, reg_num_idx, reg_name_idx, turnover_idx,
                 turnover_cache, turnover, run, prevWritten, slugVars>>

UpdateEvent(ok) ==
  [ev |-> "update_cell", idx |-> idx, row |-> CellRow(idx), col |-> CellCol(turnover_idx),
   value |-> turnover, ok |-> ok]

\* lines 128-129: the cell write succeeds
UpdateCell ==
  /\ pc = "write"
  /\ sheet' = [sheet EXCEPT ![CellRow(idx)][CellCol(turnover_idx)] = turnover]
  /\ log' = Append(log, UpdateEvent(TRUE))
  /\ pc' = "cleanup"
  /\ UNCHANGED <<headers, rows, reg_num_idx, reg_name_idx, turnover_idx,
                 turnover_cache, idx, turnover, run, prevWritten, slugVars>>

\* lines 128 and 142-143: the cell write raises
UpdateCellFails ==
  /\ pc = "write"
  /\ log' = log \o << UpdateEvent(FALSE), [ev |-> "error", idx |-> idx] >>
  /\ pc' = AfterRowError(idx).pc
  /\ idx' = AfterRowError(idx).idx
  /\ UNCHANGED <<sheet, headers, rows, reg_num_idx, reg_name_idx, turnover_idx,
                 turnover_cache, turnover, run, prevWritten, slugVars>>

\* lines 132-136: the close button is absent or clicked
Cleanup ==
  /\ pc = "cleanup"
  /\ log' = Append(log, [ev |-> "cleanup", idx |-> idx, ok |-> TRUE])
  /\ pc' = "sleep"
  /\ UNCHANGED <<sheet, headers, rows, reg_num_idx, reg_name_idx, turnover_idx,
                 turnover_cache, idx, turnover, run, prevWritten, slugVars>>

\* lines 132-136 without the inner try: the exception reaches lines 142-143
CleanupFailsRaises ==
  /\ pc = "cleanup"
  /\ log' = log \o << [ev |-> "cleanup", idx |-> idx, ok |-> FALSE],
                      [ev |-> "error", idx |-> idx] >>
  /\ pc' = "loop"
  /\ idx' = idx + 1
  /\ UNCHANGED <<sheet, headers, rows, reg_num_idx, reg_name_idx, turnover_idx,
                 turnover_cache, turnover, run, prevWritten, slugVars>>

\* lines 132-138: the cleanup raises and the exception is swallowed
CleanupFails ==
  /\ pc = "cleanup"
  /\ log' = Append(log, [ev |-> "cleanup", idx |-> idx, ok |-> FALSE])
  /\ pc' = "sleep"
  /\ UNCHANGED <<sheet, headers, rows, reg_num_idx, reg_name_idx, turnover_idx,
                 turnover_cache, idx, turnover, run, prevWritten, slugVars>>

\* line 140 moved into the else branch of line 124: no delay after a cache hit
SleepOnlyAfterFetch ==
  /\ pc = "sleep"
  /\ log' = IF \E k \in 1..Len(log) : log[k].ev = "fetch" /\ log[k].idx = idx
            THEN Append(log, [ev |-> "sleep", idx |-> idx])
            ELSE Append(log, [ev |-> "no_sleep", idx |-> idx])
  /\ idx' = idx + 1
  /\ pc' = "loop"
  /\ UNCHANGED <<sheet, headers, rows, reg_num_idx, reg_name_idx, turnover_idx,
                 turnover_cache, turnover, run, prevWritten, slugVars>>

\* line 140, then the next iteration
Sleep ==
  /\ pc = "sleep"
  /\ log' = Append(log, [ev |-> "sleep", idx |-> idx])
  /\ idx' = idx + 1
  /\ pc' = "loop"
  /\ UNCHANGED <<sheet, headers, rows, reg_num_idx, reg_name_idx, turnover_idx,
                 turnover_cache, turnover, run, prevWritten, slugVars>>

\* lines 145-146: the loop is over
Finish ==
  /\ pc = "loop"
  /\ idx = Len(rows)
  /\ pc' = "done"
  /\ UNCHANGED <<rowVars, slugVars>>

Next ==
  \/ LoadSheet
  \/ LoadSheetFails
  \/ ResolveColumns
  \/ SchemaAbort
  \/ Login
  \/ LoginFails
  \/ SkipInvalid
  \/ SkipFilled
  \/ CacheHit
  \/ Fetch
  \/ FetchFails
  \/ UpdateCell
  \/ UpdateCellFails
  \/ Cleanup
  \/ CleanupFails
  \/ Sleep
  \/ Finish

Spec == Init /\ [][Next]_vars


-----------------------------------------------------------------------------
(* The program run again on the sheet an earlier execution left behind *)

Successes(e) == { k \in 1..Len(log) : log[k].ev = e /\ log[k].ok }

\* lines 148-149: a new process, nothing in memory survives
Rerun ==
  /\ pc = "done"
  /\ run < MaxRuns
  /\ run' = run + 1
  /\ prevWritten' = { log[k].idx : k \in Successes("update_cell") }
  /\ headers' = << >>
  /\ rows' = << >>
  /\ reg_num_idx' = -1
  /\ reg_name_idx' = -1
  /\ turnover_idx' = -1
  /\ turnover_cache' = << >>
  /\ idx' = 0
  /\ turnover' = << >>
  /\ log' = << >>
  /\ pc' = "load"
  /\ UNCHANGED <<sheet, slugVars>>

NextRerun == Next \/ Rerun

SpecRerun == Init /\ [][NextRerun]_vars

-----------------------------------------------------------------------------
(* create_endole_slug called on its own, once and then on its own result *)

Alphabet == {"a", "B", " ", TAB, "&", ",", ".", "'", RSQUO, "-"}

Names(n) == UNION { [1..k -> Alphabet] : k \in 0..n }

NameOBrien ==
  <<"O", "'", "B", "r", "i", "e", "n", " ", "&", " ", "S", "o", "n", "s", ",", " ",
    "L", "t", "d", ".">>
SlugOBrien ==
  <<"o", "b", "r", "i", "e", "n", "-", "a", "n", "d", "-", "s", "o", "n", "s", "-",
    "l", "t", "d">>

SlugInit ==
  /\ company_name \in Names(MaxNameLen) \cup {NameOBrien, NameAcme}
  /\ slug1 = << >>
  /\ slug2 = << >>
  /\ pc = "slug0"
  /\ sheet = << >>
  /\ Idle
  /\ run = 1
  /\ prevWritten = {}

DeriveSlug ==
  /\ pc = "slug0"
  /\ slug1' = create_endole_slug(company_name)
  /\ pc' = "slug1"
  /\ UNCHANGED <<rowVars, company_name, slug2>>

DeriveAgain ==
  /\ pc = "slug1"
  /\ slug2' = create_endole_slug(slug1)
  /\ pc' = "slug2"
  /\ UNCHANGED <<rowVars, company_name, slug1>>

SlugNext == DeriveSlug \/ DeriveAgain

SlugSpec == SlugInit /\ [][SlugNext]_vars


-----------------------------------------------------------------------------
(* Reading the log *)

Evs(e) == { k \in 1..Len(log) : log[k].ev = e }
EvsAt(e, i) == { k \in Evs(e) : log[k].idx = i }

Resolved == turnover_idx >= 0
RowIdxs == 0..(Len(rows) - 1)
RawReg(i) == rows[i + 1][reg_num_idx + 1]
RawName(i) == rows[i + 1][reg_name_idx + 1]
RawTarget(i) == rows[i + 1][turnover_idx + 1]
Identity(i) == <<Strip(RawReg(i)), create_endole_slug(Strip(RawName(i)))>>
FetchedIdentity(k) == <<log[k].reg_number, log[k].company_slug>>

\* the events that end a row's iteration
Outcomes(i) ==
  EvsAt("skip_invalid", i) \cup EvsAt("skip_filled", i) \cup EvsAt("sleep", i)
    \cup EvsAt("error", i)

-----------------------------------------------------------------------------
(* C1 *)

-----------------------------------------------------------------------------
(* C2 *)

\* C2: a row served from the cache is not fetched, the key looked up is the
\* row's identity, and the value taken from the cache and written to the
\* row's cell is the value the earlier fetch for that identity returned.
C2_CacheHitReusesFetchedValue ==
  \A g \in Evs("cache_get") :
    LET i == log[g].idx IN
    /\ EvsAt("fetch", i) = {}
    /\ log[g].key = Identity(i)
    /\ \E f \in Evs("fetch") :
         /\ f < g
         /\ log[f].ok
         /\ FetchedIdentity(f) = Identity(i)
         /\ log[f].value = log[g].value
    /\ \A f \in Evs("fetch") :
         (log[f].ok /\ FetchedIdentity(f) = Identity(i)) =>
           \A u \in EvsAt("update_cell", i) : log[u].value = log[f].value
    /\ (pc = "write" /\ idx = i) => turnover = log[g].value

\* a cache hit on the sentinel, written to the row's cell
C2_Witness ==
  \E g \in Evs("cache_get") :
    /\ log[g].value = NotAvailable
    /\ \E u \in EvsAt("update_cell", log[g].idx) :
         log[u].ok /\ sheet[log[u].row][log[u].col] = NotAvailable

-----------------------------------------------------------------------------
(* C3 *)

\* C3 as stated: a row whose target cell as read has length > 0 is neither
\* fetched nor written.
C3_NonEmptyCellSkipped ==
  Resolved =>
    \A i \in RowIdxs :
      Len(RawTarget(i)) > 0 => EvsAt("fetch", i) = {} /\ EvsAt("update_cell", i) = {}

\* C3 amended: a row whose target cell as read is non-empty after trimming
\* whitespace is neither fetched nor written.
C3_FilledCellSkipped ==
  Resolved =>
    \A i \in RowIdxs :
      Strip(RawTarget(i)) # << >> =>
        EvsAt("fetch", i) = {} /\ EvsAt("update_cell", i) = {}

\* a valid row with a filled target cell went through the loop
C3_Witness ==
  /\ pc = "done"
  /\ \E i \in RowIdxs :
       /\ Strip(RawTarget(i)) # << >>
       /\ EvsAt("skip_filled", i) # {}

-----------------------------------------------------------------------------
(* C4 *)

InvalidAsRead(i) ==
  RawReg(i) = << >> \/ RawName(i) = << >> \/ Lower(RawReg(i)) = NanToken

\* C4: a row whose identifier is empty, whose name is empty or whose
\* identifier is "nan" in any letter case is not fetched, not written, and
\* the cache is neither looked up nor updated for it.
C4_InvalidRowUntouched ==
  Resolved =>
    \A i \in RowIdxs :
      InvalidAsRead(i) =>
        /\ EvsAt("fetch", i) = {}
        /\ EvsAt("update_cell", i) = {}
        /\ EvsAt("cache_lookup", i) = {}
        /\ EvsAt("cache_get", i) = {}
        /\ EvsAt("cache_put", i) = {}

\* a row with identifier "NaN" and a filled target cell, and a row with an
\* empty identifier or name, went through the loop
C4_Witness ==
  /\ pc = "done"
  /\ \E i \in RowIdxs :
       /\ RawReg(i) = RegNaN
       /\ RawTarget(i) = Filled
       /\ EvsAt("skip_invalid", i) # {}
  /\ \E i \in RowIdxs :
       /\ RawReg(i) = << >> \/ RawName(i) = << >>
       /\ EvsAt("skip_invalid", i) # {}

-----------------------------------------------------------------------------
(* C5 *)

\* C5: when the fetch for row n raises, no cell write is issued for row n,
\* its cell in the sheet stays as read, nothing is put in the cache for it,
\* the run goes on, and row n+1 gets its own outcome.
C5_FetchFailureSkipsRow ==
  \A f \in Evs("fetch") :
    ~log[f].ok =>
      LET n == log[f].idx IN
      /\ EvsAt("update_cell", n) = {}
      /\ EvsAt("cache_put", n) = {}
      /\ sheet[CellRow(n)][CellCol(turnover_idx)] = RawTarget(n)
      /\ EvsAt("error", n) # {}
      /\ pc \in {"loop", "write", "cleanup", "sleep", "done"}
      /\ idx > n
      /\ (n + 1 < Len(rows) /\ (idx > n + 1 \/ pc = "done")) =>
           Cardinality(Outcomes(n + 1)) = 1

\* the fetch for a row raised and the next row was fetched and written
C5_Witness ==
  \E f \in Evs("fetch") :
    /\ ~log[f].ok
    /\ \E u \in EvsAt("update_cell", log[f].idx + 1) : log[u].ok
    /\ EvsAt("fetch", log[f].idx + 1) # {}
    /\ pc = "done"


-----------------------------------------------------------------------------
(* C6 *)

SchemaAborted == pc = "aborted" /\ \E k \in Evs("fatal") : log[k].at = "index"

\* C6 as stated: when the identifier or the name column is missing, the run
\* aborts with no fetch, no header write and no cell write issued.
C6_SchemaAbortBeforeAnyWrite ==
  SchemaAborted =>
    /\ Evs("fetch") = {}
    /\ Evs("update_header") = {}
    /\ Evs("update_cell") = {}

-----------------------------------------------------------------------------
(* C7 *)

\* C7 as stated: in a second execution on the sheet the first one left, no
\* row the first execution wrote to is fetched or written again.
C7_RerunSkipsWrittenRows ==
  run = 2 =>
    \A i \in prevWritten : EvsAt("fetch", i) = {} /\ EvsAt("update_cell", i) = {}

-----------------------------------------------------------------------------
(* C8 *)

\* C8 as stated: for every non-empty name, the slug of the slug is the slug.
C8_SlugIdempotent ==
  (pc = "slug2" /\ company_name # << >>) => slug2 = slug1

-----------------------------------------------------------------------------
(* C9 *)

\* step 4 of the reference transformation: every run of whitespace becomes
\* one hyphen
RECURSIVE HyphenateRuns(_)
HyphenateRuns(s) ==
  IF s = << >> THEN << >>
  ELSE IF Head(s) \in Whitespace THEN <<"-">> \o HyphenateRuns(LStrip(s))
  ELSE <<Head(s)>> \o HyphenateRuns(Tail(s))

\* the four steps of the reference transformation, in order
ReferenceSlug(name) ==
  HyphenateRuns(
    Replace(Replace(Replace(Replace(
      Replace(Lower(Strip(name)), "&", <<"a", "n", "d">>),
      ",", << >>), ".", << >>), "'", << >>), RSQUO, << >>))

\* C9 as stated: the derived slug is the result of the reference
\* transformation, for every name; "O'Brien & Sons, Ltd." gives
\* "obrien-and-sons-ltd".
C9_SlugMatchesReference ==
  pc \in {"slug1", "slug2"} =>
    /\ slug1 = ReferenceSlug(company_name)
    /\ company_name = NameOBrien => slug1 = SlugOBrien

-----------------------------------------------------------------------------
(* C10 *)

ScenarioSheet == << <<NameCol, RegCol>>, <<NameAcme, Reg>>, <<NameAcme, Reg>> >>

ScenarioC10 ==
  /\ Len(log) >= 1
  /\ log[1].ev = "get_all_values"
  /\ log[1].values = ScenarioSheet
  /\ \A f \in Evs("fetch") : log[f].ok

\* C10: on the two-row Acme sheet without the target column, with every
\* fetch returning, the header pushed back has the target column appended,
\* the only fetch is for ("12345678", "acme-and-co"), and at the end of the
\* run there was exactly one fetch and each row got one cell write carrying
\* the fetched value.
C10_EndToEnd ==
  ScenarioC10 =>
    /\ \A h \in Evs("update_header") : log[h].header = <<NameCol, RegCol, TurnoverCol>>
    /\ Cardinality(Evs("fetch")) <= 1
    /\ \A f \in Evs("fetch") : FetchedIdentity(f) = <<Reg, SlugAcme>>
    /\ pc = "done" =>
         /\ Cardinality(Evs("fetch")) = 1
         /\ \A i \in {0, 1} : Cardinality(EvsAt("update_cell", i)) = 1
         /\ \A u \in Evs("update_cell"), f \in Evs("fetch") : log[u].value = log[f].value

\* the scenario ran to the end and both cells hold the fetched value
C10_Witness ==
  /\ ScenarioC10
  /\ pc = "done"
  /\ Cardinality(Successes("update_cell")) = 2
  /\ \E f \in Evs("fetch") :
       sheet = << <<NameCol, RegCol, TurnoverCol>>,
                  <<NameAcme, Reg, log[f].value>>, <<NameAcme, Reg, log[f].value>> >>

-----------------------------------------------------------------------------
(* C11 *)

\* C11: the cell writes of a run are issued in row order: of any two
\* update_cell calls, the later one targets a strictly later grid row and a
\* strictly later input row, so no row is written twice.
C11_WritesInRowOrder ==
  \A u, v \in Evs("update_cell") :
    u < v => log[u].row < log[v].row /\ log[u].idx < log[v].idx

\* two rows written in one run, the first after a skipped row or with a
\* failed write
C11_Witness ==
  /\ pc = "done"
  /\ Cardinality(Evs("update_cell")) = 2
  /\ \E u \in Evs("update_cell") : ~log[u].ok

-----------------------------------------------------------------------------
(* C12 *)

HeaderAsRead == log[1].values[1]
RowsAsRead == Tail(log[1].values)
TargetAbsent ==
  /\ Len(log) >= 1
  /\ log[1].ev = "get_all_values"
  /\ ~Contains(HeaderAsRead, TurnoverCol)

\* C12: when the header as read lacks the target column, the header in
\* memory is the header as read with the target column appended, every row
\* is the row as read with one empty cell appended (as long as the header),
\* and every fetch and every cell write comes after a header write carrying
\* the extended header.
C12_TargetColumnAppended ==
  TargetAbsent =>
    /\ headers = Append(HeaderAsRead, TurnoverCol)
    /\ Len(rows) = Len(RowsAsRead)
    /\ \A i \in 1..Len(rows) :
         rows[i] = Append(RowsAsRead[i], << >>) /\ Len(rows[i]) = Len(headers)
    /\ \E h \in Evs("update_header") : log[h].header = headers
    /\ \A k \in Evs("fetch") \cup Evs("update_cell") :
         \E h \in Evs("update_header") :
           h < k /\ log[h].ok /\ log[h].header = headers

\* the target column was absent, two rows were read, one was fetched and
\* written
C12_Witness ==
  /\ TargetAbsent
  /\ Len(rows) = 2
  /\ Evs("fetch") # {}
  /\ Successes("update_cell") # {}

-----------------------------------------------------------------------------
(* C13 *)

\* the row after row n has its outcome once the loop is past it
NextRowProcessed(n) ==
  (n + 1 < Len(rows) /\ (idx > n + 1 \/ pc = "done")) =>
    Cardinality(Outcomes(n + 1)) = 1

\* C13 as stated: after a navigation failure, a load timeout or an exception
\* during extraction, no cell write is issued for the row, the loop goes on
\* and the row is not fetched again.
C13_ThreeFailuresLeaveRowUnfilled ==
  \A f \in Evs("fetch") :
    log[f].kind \in {"goto_error", "load_timeout", "extract_error"} =>
      LET n == log[f].idx IN
      /\ EvsAt("update_cell", n) = {}
      /\ Cardinality(EvsAt("fetch", n)) = 1
      /\ pc # "aborted"
      /\ NextRowProcessed(n)

\* C13 amended: after a navigation failure or a load timeout, no cell write
\* is issued for the row, the loop goes on with the next row and the row is
\* not fetched again in the run; an exception during extraction is caught
\* inside the fetch, which returns the sentinel "N/A".
C13_NavigationOrTimeoutLeavesRowUnfilled ==
  \A f \in Evs("fetch") :
    LET n == log[f].idx IN
    /\ log[f].kind \in {"goto_error", "load_timeout"} =>
         /\ ~log[f].ok
         /\ EvsAt("update_cell", n) = {}
         /\ Cardinality(EvsAt("fetch", n)) = 1
         /\ pc # "aborted"
         /\ idx > n
         /\ NextRowProcessed(n)
    /\ log[f].kind = "extract_error" => log[f].ok /\ log[f].value = NotAvailable

\* a navigation failure on one row and a load timeout on the next, both
\* rows left as read at the end of the run
C13_Witness ==
  /\ pc = "done"
  /\ \E f, g \in Evs("fetch") :
       /\ log[f].kind = "goto_error"
       /\ log[g].kind = "load_timeout"
       /\ log[g].idx = log[f].idx + 1
  /\ Evs("update_cell") = {}
  /\ Tail(sheet) = rows

-----------------------------------------------------------------------------
(* C14 *)

\* C14: when the cell write for row n raises, the error is reported for row
\* n, the row gets no cleanup and no pacing delay, the run does not abort,
\* and the loop moves past row n and gives the next row its outcome.
C14_WriteFailureIsolated ==
  \A u \in Evs("update_cell") :
    ~log[u].ok =>
      LET n == log[u].idx IN
      /\ \E e \in EvsAt("error", n) : e = u + 1
      /\ EvsAt("cleanup", n) = {}
      /\ EvsAt("sleep", n) = {}
      /\ pc \in {"loop", "write", "cleanup", "sleep", "done"}
      /\ idx > n
      /\ NextRowProcessed(n)

\* the write for the first row raised and the second row was fetched and
\* written
C14_Witness ==
  /\ pc = "done"
  /\ \E u \in EvsAt("update_cell", 0) : ~log[u].ok
  /\ \E v \in EvsAt("update_cell", 1) : log[v].ok
  /\ EvsAt("fetch", 1) # {}

-----------------------------------------------------------------------------
(* C15 *)

\* the 0-based offset of the target column in the header in memory
TargetOffset == CHOOSE t \in 0..(Len(headers) - 1) : headers[t + 1] = TurnoverCol

\* C15: every update_cell call for the row at index i names grid row i + 2
\* and grid column (offset of the target column) + 1, from the cache and
\* from a fetch alike, and the sheet differs from what was loaded only in
\* the target cells of the rows whose write succeeded.
C15_WriteCoordinates ==
  /\ \A u \in Evs("update_cell") :
       log[u].row = log[u].idx + 2 /\ log[u].col = TargetOffset + 1
  /\ pc \in {"loop", "write", "cleanup", "sleep", "done"} =>
       /\ sheet[1] = headers
       /\ Len(sheet) = Len(rows) + 1
       /\ \A i \in RowIdxs : \A c \in 1..Len(headers) :
            sheet[i + 2][c] =
              IF c = TargetOffset + 1 /\ (\E u \in EvsAt("update_cell", i) : log[u].ok)
              THEN log[CHOOSE u \in EvsAt("update_cell", i) : log[u].ok].value
              ELSE rows[i + 1][c]

\* one row written from a fetch and the next from the cache, in a sheet
\* whose target column lies between the name and the identifier column
C15_Witness ==
  /\ pc = "done"
  /\ TargetOffset = 1
  /\ Len(headers) = 3
  /\ \E u \in EvsAt("update_cell", 0), v \in EvsAt("update_cell", 1) :
       /\ log[u].ok /\ log[v].ok
       /\ log[u].row = 2 /\ log[v].row = 3
       /\ EvsAt("fetch", 0) # {}
       /\ EvsAt("cache_get", 1) # {}

-----------------------------------------------------------------------------
(* C16 *)

\* the log entries that belong to a row
RowEvents == { k \in 1..Len(log) : log[k].ev \notin {"get_all_values", "update_header", "fatal"} }
OkUpdates(i) == { u \in EvsAt("update_cell", i) : log[u].ok }

\* C16: a row that is over has one pacing delay when its cell write
\* succeeded and none otherwise (skipped, fetch failed, write failed); the
\* delay comes after the write and before anything is done for a later row,
\* for a cached value and for a fetched value alike.
C16_OnePacingDelayPerWrite ==
  /\ \A i \in RowIdxs :
       /\ Cardinality(EvsAt("sleep", i)) <= 1
       /\ \A s \in EvsAt("sleep", i) : \E u \in OkUpdates(i) : u < s
       /\ (idx > i \/ pc = "done") =>
            Cardinality(EvsAt("sleep", i)) = Cardinality(OkUpdates(i))
       /\ (EvsAt("skip_invalid", i) \cup EvsAt("skip_filled", i) \cup EvsAt("error", i)) # {} =>
            EvsAt("sleep", i) = {}
  /\ \A u \in Successes("update_cell") : \A k \in RowEvents :
       log[k].idx > log[u].idx =>
         \E s \in EvsAt("sleep", log[u].idx) : u < s /\ s < k

\* a fetched row and a cached row, each written and followed by its delay,
\* in one run
C16_Witness ==
  /\ pc = "done"
  /\ \E i, j \in RowIdxs :
       /\ EvsAt("fetch", i) # {} /\ EvsAt("sleep", i) # {}
       /\ EvsAt("cache_get", j) # {} /\ EvsAt("sleep", j) # {}

-----------------------------------------------------------------------------
(* C17 *)

\* C17: when the cleanup after the cell write of row n raises, the write
\* stands (the sheet holds the written value), no error is reported for row
\* n, the run does not abort, the pacing delay follows before the loop
\* leaves row n, and the next row gets its outcome.
C17_CleanupFailureSwallowed ==
  \A c \in Evs("cleanup") :
    ~log[c].ok =>
      LET n == log[c].idx IN
      /\ \E u \in OkUpdates(n) :
           u < c /\ sheet[log[u].row][log[u].col] = log[u].value
      /\ EvsAt("error", n) = {}
      /\ pc \in {"loop", "sleep", "write", "cleanup", "done"}
      /\ (pc = "sleep" /\ idx = n) \/ (\E s \in EvsAt("sleep", n) : s = c + 1)
      /\ NextRowProcessed(n)

\* the cleanup of the first row raised, and the second row was processed to
\* the end of the run
C17_Witness ==
  /\ pc = "done"
  /\ Len(rows) = 2
  /\ \E c \in EvsAt("cleanup", 0) : ~log[c].ok
  /\ EvsAt("sleep", 0) # {}
  /\ OkUpdates(1) # {}

-----------------------------------------------------------------------------
(* C18 *)

InRowLoop == pc \in {"loop", "write", "cleanup", "sleep"}

\* what a step may do to the cache: the step that enters the loop leaves it
\* empty; a step of the loop keeps every entry with its value, and a new
\* entry is the identity and the value of a successful fetch logged by the
\* same step
CacheStep ==
  /\ (pc = "login" /\ pc' = "loop") => turnover_cache' = << >>
  /\ InRowLoop =>
       /\ \A k \in DOMAIN turnover_cache :
            k \in DOMAIN turnover_cache' /\ turnover_cache'[k] = turnover_cache[k]
       /\ \A k \in DOMAIN turnover_cache' \ DOMAIN turnover_cache :
            \E f \in (Len(log) + 1)..Len(log') :
              /\ log'[f].ev = "fetch"
              /\ log'[f].ok
              /\ <<log'[f].reg_number, log'[f].company_slug>> = k
              /\ log'[f].value = turnover_cache'[k]

\* C18: the cache is empty when row processing starts and only grows: an
\* entry appears only with a successful fetch for its identity, and an
\* entry, once present, keeps its value until the run ends.
C18_CacheGrowsMonotonically ==
  /\ [](~InRowLoop /\ pc # "done" => turnover_cache = << >>)
  /\ [][CacheStep]_vars

\* two identities cached in one run
C18_Witness ==
  /\ pc = "done"
  /\ Cardinality(DOMAIN turnover_cache) = 2
  /\ Cardinality(Successes("fetch")) = 2

-----------------------------------------------------------------------------
(* C19 *)

\* The program is sequential: a step that can be taken is taken, each
\* collaborator call returning or raising.
FairSpec == Init /\ [][Next]_vars /\ WF_vars(Next)

\* the number of outcomes the row at index i has ended in: skipped as
\* invalid, skipped as filled, persisted, abandoned on an error
OutcomeCount(i) ==
  Cardinality(EvsAt("skip_invalid", i)) + Cardinality(EvsAt("skip_filled", i))
    + Cardinality(OkUpdates(i)) + Cardinality(EvsAt("error", i))

RowsInOrder ==
  /\ (InRowLoop \/ pc = "done") =>
       /\ idx <= Len(rows)
       /\ pc = "done" => idx = Len(rows)
       /\ \A i \in RowIdxs :
            /\ i < idx => OutcomeCount(i) = 1
            /\ i > idx => EvsAt("cache_lookup", i) \cup Outcomes(i) = {}
            /\ OutcomeCount(i) <= 1
  /\ \A k, l \in RowEvents : k < l => log[k].idx <= log[l].idx
  /\ \A k \in RowEvents : log[k].idx <= idx /\ log[k].idx < Len(rows)
  /\ pc = "aborted" => RowEvents = {}

\* C19: once the row loop is entered the run reaches its end, whatever
\* fails in the rows; rows are taken in their original order, a row the
\* loop has left has exactly one outcome, and no row is taken up again.
C19_TerminatesEachRowOnce ==
  /\ []RowsInOrder
  /\ (pc = "loop") ~> (pc = "done")

\* a run over two rows that ended with one row abandoned on an error and
\* one persisted
C19_Witness ==
  /\ pc = "done"
  /\ Len(rows) = 2
  /\ \E i, j \in RowIdxs : EvsAt("error", i) # {} /\ OkUpdates(j) # {}

-----------------------------------------------------------------------------
(* C20 *)

\* C20: when the cell write of row n raises after its fetch returned, the
\* fetched value was put in the cache before the write was issued and is
\* still there; row n gets no other write and its cell stays as read; every
\* later row with the same identity that the loop processes as valid and
\* unfilled is not fetched and is written with that value from the cache.
C20_CachedBeforeWrite ==
  \A u \in Evs("update_cell") : \A f \in EvsAt("fetch", log[u].idx) :
    ~log[u].ok =>
      LET n == log[u].idx IN
      /\ \E p \in EvsAt("cache_put", n) :
           f < p /\ p < u /\ log[p].key = Identity(n) /\ log[p].value = log[f].value
      /\ Identity(n) \in DOMAIN turnover_cache
      /\ turnover_cache[Identity(n)] = log[f].value
      /\ EvsAt("update_cell", n) = {u}
      /\ sheet[n + 2][turnover_idx + 1] = RawTarget(n)
      /\ \A m \in RowIdxs :
           (m > n /\ Identity(m) = Identity(n) /\ EvsAt("cache_lookup", m) # {}) =>
             /\ EvsAt("fetch", m) = {}
             /\ \E g \in EvsAt("cache_get", m) : log[g].value = log[f].value
             /\ \A v \in EvsAt("update_cell", m) : log[v].value = log[f].value

\* the write of the first row raised after its fetch, and the second row,
\* of the same identity, was written from the cache
C20_Witness ==
  /\ pc = "done"
  /\ \E u \in EvsAt("update_cell", 0) : ~log[u].ok
  /\ EvsAt("fetch", 0) # {}
  /\ EvsAt("cache_get", 1) # {}
  /\ OkUpdates(1) # {}
  /\ Identity(0) = Identity(1)
  /\ sheet[2][turnover_idx + 1] = << >>
  /\ sheet[3][turnover_idx + 1] = turnover_cache[Identity(0)]

====
